---- MODULE Spec2Model ----
(***************************************************************************)
(* Model of the label cache server (PioneerBio/labelserver).               *)
(*                                                                         *)
(*   cache.py   LabelBlobCache         disk LRU of downloaded blobs         *)
(*   index.py   SpatialIndexManager    in-memory LRU of per-blob R-trees    *)
(*   main.py    get_labels, label_stats, invalidate_cache   HTTP handlers   *)
(*                                                                         *)
(* Handlers are asyncio coroutines: between two awaits a handler keeps the *)
(* event-loop thread, so no other handler runs.  asyncio.to_thread runs    *)
(* _download, LabelBlobCache._evict_if_needed, get_or_build and query_bbox *)
(* on worker threads.  Neither cache takes a mutex, so a worker thread     *)
(* runs between any two statements of the event loop and of other worker   *)
(* threads: every action below is one statement (one access to the file   *)
(* system or to a shared dict), or a run of statements that touch nothing  *)
(* shared.  Cancelling a request that awaits a worker thread releases its  *)
(* locks at once and leaves the thread running.                            *)
(*                                                                         *)
(* The cache directory is empty at start, so _scan_existing finds nothing. *)
(* Both blob paths lie in one directory, a/k1.json.gz and a/k2.json.       *)
(* Sizes are in MB, so memory_estimate_mb = 8 * size for a .gz file.       *)
(* Python positions are 0-based; label ids here are 1-based.               *)
(***************************************************************************)
EXTENDS Integers, Sequences, FiniteSets, TLC

\* ---------------------------------------------------------------- bounds
MaxReq == 2            \* requests issued in one behaviour
MaxCancel == 1         \* requests cancelled in one behaviour

Reqs == 1..MaxReq
Keys == {1, 2}         \* blob paths: 1 is a/k1.json.gz, 2 is a/k2.json

\* ----------------------------------------------------- settings (config.py)
MaxBytes == 2          \* LabelBlobCache.max_bytes, in MB
MaxIndexes == 1        \* SpatialIndexManager.max_indexes
MaxMemoryMb == 8       \* SpatialIndexManager.max_memory_mb

\* Sizes a blob can have in the object store when it is downloaded; the
\* largest is larger than the whole disk cache.
BlobSizes == 1..(MaxBytes + 1)

\* ------------------------------------------------------------ OrderedDict
\* An OrderedDict is a sequence of records with a key field, oldest first.
KeysOf(od) == {od[i].key : i \in 1..Len(od)}

Has(od, k) == k \in KeysOf(od)

Entry(od, k) == od[CHOOSE i \in 1..Len(od) : od[i].key = k]

DelKey(od, k) == SelectSeq(od, LAMBDA e : e.key # k)

\* OrderedDict.move_to_end(k); the callers check membership first
MoveToEnd(od, k) == DelKey(od, k) \o <<Entry(od, k)>>

\* od[k] = e : a new key is appended, an existing key keeps its position
SetItem(od, e) ==
    IF Has(od, e.key)
    THEN [i \in 1..Len(od) |-> IF od[i].key = e.key THEN e ELSE od[i]]
    ELSE Append(od, e)

RECURSIVE SumSize(_)
SumSize(od) == IF od = <<>> THEN 0 ELSE Head(od).size + SumSize(Tail(od))

RECURSIVE SumMem(_)
SumMem(od) == IF od = <<>> THEN 0 ELSE Head(od).mem + SumMem(Tail(od))

\* ------------------------------------------------------ labels and geometry
Absent == <<>>         \* a field the label record does not have
NoBBox == <<>>         \* _compute_bbox returned None

Pt(x, y) == [x |-> x, y |-> y]

Label(regions, position, centre, size) ==
    [regions |-> regions, position |-> position, centre |-> centre, size |-> size]

\* The annotation file of each blob: scenario 1 of the spec for key 1; a
\* polygon, a box, a label without geometry and a point for key 2.
LabelsOf(k) ==
    IF k = 1
    THEN << Label(Absent, Pt(0, 0), Absent, Absent),
            Label(Absent, Pt(10, 10), Absent, Absent) >>
    ELSE << Label(<< <<Pt(2, 2), Pt(6, 3), Pt(4, 8)>> >>, Absent, Absent, Absent),
            Label(Absent, Absent, Pt(10, 10), Pt(4, 2)),
            Label(Absent, Absent, Absent, Absent),
            Label(Absent, Pt(1, 1), Absent, Absent) >>

IsGz(k) == k = 1       \* local_path.endswith('.gz')

RECURSIVE Flatten(_)
Flatten(rings) == IF rings = <<>> THEN <<>> ELSE Head(rings) \o Flatten(Tail(rings))

MinOf(S) == CHOOSE m \in S : \A n \in S : m <= n
MaxOf(S) == CHOOSE m \in S : \A n \in S : m >= n

\* SpatialIndexManager._compute_bbox; size / 2 is exact for the even sizes
\* the labels above use.
ComputeBBox(label) ==
    IF label.regions # Absent
    THEN LET pts == Flatten(label.regions)
             xs == {pts[i].x : i \in 1..Len(pts)}
             ys == {pts[i].y : i \in 1..Len(pts)}
         IN  IF xs = {} THEN NoBBox
             ELSE <<MinOf(xs), MinOf(ys), MaxOf(xs), MaxOf(ys)>>
    ELSE IF label.position # Absent
    THEN <<label.position.x, label.position.y, label.position.x, label.position.y>>
    ELSE IF label.centre # Absent /\ label.size # Absent
    THEN LET half_w == label.size.x \div 2
             half_h == label.size.y \div 2
         IN  <<label.centre.x - half_w, label.centre.y - half_h,
               label.centre.x + half_w, label.centre.y + half_h>>
    ELSE NoBBox

\* rtree intersection of two rectangles (closed intervals)
Intersects(a, b) ==
    a[1] <= b[3] /\ b[1] <= a[3] /\ a[2] <= b[4] /\ b[2] <= a[4]

\* The R-tree built by _build_index: the ids of the labels that have a bbox
RtreeIds(labels) == {i \in 1..Len(labels) : ComputeBBox(labels[i]) # NoBBox}

\* ids the R-tree yields for a query rectangle
RtreeIntersection(labels, bbox) ==
    {i \in RtreeIds(labels) : Intersects(ComputeBBox(labels[i]), bbox)}

\* memory estimate of _build_index from the size of the file on disk
MemEstimate(k, file_size) == IF IsGz(k) THEN file_size * 8 ELSE file_size * 2

\* The bbox query parameter of /labels: omitted, or the string split at commas
Param(given, parts) == [given |-> given, parts |-> parts]
BBoxParams ==
    { Param(FALSE, <<>>),
      Param(TRUE, <<1, 2, 3>>),
      Param(TRUE, <<0 - 1, 0 - 1, 1, 1>>),
      Param(TRUE, <<5, 5, 12, 12>>) }

\* bbox parsing of get_labels: exactly four numbers, else 400
BadBBox == <<>>
ParseBBox(parts) == IF Len(parts) = 4 THEN parts ELSE BadBBox

\* The orders in which an iterable can yield the members of S
Orders(S) ==
    {q \in [1..Cardinality(S) -> S] : \A i, j \in 1..Cardinality(S) : i # j => q[i] # q[j]}


\* ------------------------------------------------------------------ state
VARIABLES
    disk,        \* disk[k]: size of the file cache_dir/k, NoFile when there is none
    tmp,         \* tmp[k]: size of the file cache_dir/k.tmp, NoFile when there is none
    dir,         \* the directory cache_dir/a of the blob paths exists
    files,       \* LabelBlobCache._files: OrderedDict key -> size
    locks,       \* LabelBlobCache._locks: NoLock, Unlocked or the request holding it
    indexes,     \* SpatialIndexManager._indexes: OrderedDict key -> LabelIndex
    pc,          \* the statement each request (or the worker thread it awaits) is at
    kind,        \* "labels", "stats" or "invalidate"
    key,         \* blob_path of the request
    cancelled,   \* the request was cancelled while its worker thread ran on
    fd,          \* where the file that _download holds open is linked now
    size,        \* local size of get / label_stats
    total,       \* local total / total_mb of the thread's _evict_if_needed
    oldest,      \* local (oldest_key, oldest_size) / (oldest_key, oldest)
    li,          \* LabelIndex built or found by get_or_build / query_bbox
    pos,         \* position of the iterator of the thread's sum over _indexes
    dirty,       \* the dict was mutated under the iterator the thread holds
    waiting,     \* the tasks waiting for a per-key lock, in order of arrival
    qbox,        \* bbox_tuple of get_labels
    err,         \* exception raised in the request
    getRet,      \* outcome of the request's LabelBlobCache.get call
    resp,        \* HTTP response of the request
    downloads,   \* number of _download calls issued per key (history)
    ncancel,     \* number of cancellations so far (history)
    used,        \* disk keys by last use, oldest first (history)
    touched,     \* index keys by last touch, oldest first (history)
    before,      \* label_stats: was the key indexed when the call began, and has
                 \* that changed since (history)
    stale        \* requests holding a LabelIndex built before an invalidation
                 \* of their key returned, and not yet inserted (history)

vars == <<disk, tmp, dir, files, locks, indexes, pc, kind, key, cancelled, fd, size,
          total, oldest, li, pos, dirty, waiting, qbox, err, getRet, resp, downloads, ncancel,
          used, touched, before, stale>>

NoFile == 0 - 1
NoLock == 0 - 1
Unlocked == 0
NoEntry == [key |-> 0]
NoResp == [status |-> 0, body |-> <<>>]
NotSeen == [resident |-> FALSE, changed |-> FALSE]

\* os.path.exists on the files d
Exists(d, k) == d[k] # NoFile

\* LabelBlobCache.__init__ on an empty cache_dir, SpatialIndexManager.__init__
Init ==
    /\ disk = [k \in Keys |-> NoFile]
    /\ tmp = [k \in Keys |-> NoFile]
    /\ dir = FALSE
    /\ files = <<>>
    /\ locks = [k \in Keys |-> NoLock]
    /\ indexes = <<>>
    /\ pc = [r \in Reqs |-> "idle"]
    /\ kind = [r \in Reqs |-> "none"]
    /\ key = [r \in Reqs |-> 0]
    /\ cancelled = [r \in Reqs |-> FALSE]
    /\ fd = [r \in Reqs |-> "none"]
    /\ size = [r \in Reqs |-> 0]
    /\ total = [r \in Reqs |-> 0]
    /\ oldest = [r \in Reqs |-> NoEntry]
    /\ li = [r \in Reqs |-> NoEntry]
    /\ pos = [r \in Reqs |-> 0]
    /\ dirty = [r \in Reqs |-> FALSE]
    /\ waiting = <<>>
    /\ qbox = [r \in Reqs |-> <<>>]
    /\ err = [r \in Reqs |-> "none"]
    /\ getRet = [r \in Reqs |-> "none"]
    /\ resp = [r \in Reqs |-> NoResp]
    /\ downloads = [k \in Keys |-> 0]
    /\ ncancel = 0
    /\ used = <<>>
    /\ touched = <<>>
    /\ before = [r \in Reqs |-> NotSeen]
    /\ stale = {}

\* ------------------------------------------------------------ scheduling
\* The statements of get, label_stats and invalidate_cache that follow one
\* another with no await between them: a request at one of them keeps the
\* event loop.
LoopPcs ==
    {"fp_in", "fp_bump", "g_lock", "reg_set", "reg_bump", "st_stat", "st_idx",
     "inv_del", "inv_remove", "inv_in", "inv_fdel"}

\* The event loop is free to start a handler or to resume a suspended one.
LoopFree == \A q \in Reqs : pc[q] \notin LoopPcs

\* Request slots are taken in order.
NextSlot(r) == pc[r] = "idle" /\ (IF r = 1 THEN TRUE ELSE pc[r - 1] # "idle")

\* Tasks waiting in asyncio.Lock.acquire for the per-key lock of k, first come
\* first
Waiters(k) == SelectSeq(waiting, LAMBDA q : key[q] = k)

\* the waiting tasks without r
Unqueue(r) == SelectSeq(waiting, LAMBDA q : q # r)

\* asyncio.Lock.acquire takes a free lock at once only if nobody waits for it
CanLock(k) == locks[k] \in {NoLock, Unlocked} /\ Waiters(k) = <<>>

\* A worker thread that has finished hands its result to the awaiting
\* coroutine, unless that was cancelled meanwhile.
ThreadEnd(r, awaited) == IF cancelled[r] THEN "done" ELSE awaited

\* next(iter(d.items())) on an empty dict raises StopIteration in the worker
\* thread.  asyncio either cannot set it on the future of to_thread, and the
\* awaiting task never resumes (hung), or hands it on as a RuntimeError
\* (awaited), depending on the Python version.
StopOutcomes(r, hung, awaited) == IF cancelled[r] THEN {"done"} ELSE {hung, awaited}

\* `async with lock` of get releases on every way out
Release(r) == [k \in Keys |-> IF locks[k] = r THEN Unlocked ELSE locks[k]]

\* A variant in which label_stats too dispatches get_or_build after get: the
\* frame property of GET /labels/stats must tell it from PcAfterGet.
PcAfterGetBuilds(kd) == "ib_check"

\* What the handler does once LabelBlobCache.get has returned the path:
\* get_labels dispatches get_or_build to a thread, label_stats goes on to
\* os.path.getsize.
PcAfterGet(kd) == IF kd = "labels" THEN "ib_check" ELSE "st_stat"

\* Both handlers answer 404 to any exception of get
RespGetFailed == [status |-> 404, body |-> <<>>]

\* an exception the handler does not catch: 500
RespUnhandled == [status |-> 500, body |-> <<>>]

\* ------------------------------------------------------------ file system
\* The open file of each _download after os.rename(k.tmp, k): a file open
\* under the tmp name is the cached file now, the replaced cached file is
\* unlinked.
FdRenamed(k) ==
    [q \in Reqs |->
        IF key[q] # k THEN fd[q]
        ELSE IF fd[q] = "tmp" THEN "final"
        ELSE IF fd[q] = "final" THEN "gone"
        ELSE fd[q]]

\* ... after os.remove(k)
FdRemoved(k) ==
    [q \in Reqs |-> IF key[q] = k /\ fd[q] = "final" THEN "gone" ELSE fd[q]]

\* readinto writes s MB from offset 0 into a file of cur MB
Written(cur, s) == IF s > cur THEN s ELSE cur

\* os.listdir(parent) is empty
DirEmpty == \A k \in Keys : ~Exists(disk, k) /\ ~Exists(tmp, k)

\* ------------------------------------------------------- dict iteration
\* the keys of an OrderedDict in order
KeySeq(od) == [i \in 1..Len(od) |-> od[i].key]

\* the statements at which a thread holds a live iterator over _files, over
\* _indexes
FilesIter == {"ev_next"}
IndexIter == {"ib_summing", "ib_next"}

\* A dict goes from old to od: the live iterators on it (threads at iter) are
\* invalid from now on when a key was added, removed or moved.
Mutated(iter, old, od) ==
    [q \in Reqs |-> dirty[q] \/ (pc[q] \in iter /\ KeySeq(od) # KeySeq(old))]

\* --------------------------------------------------------------- history
\* k becomes the most recent key of a use/touch order
Recent(order, k) == SelectSeq(order, LAMBDA x : x # k) \o <<k>>

\* the requests that have parsed the cached file of k into a LabelIndex and
\* have not inserted it yet
BuiltFrom(k) == {q \in Reqs : key[q] = k /\ pc[q] \in {"ib_stat", "ib_insert"}}

\* the index dict as a label_stats call of kind kd on key k finds it when it
\* begins
AtCallStart(kd, k) ==
    IF kd = "stats" THEN [resident |-> Has(indexes, k), changed |-> FALSE] ELSE NotSeen

\* the index dict becomes ix: every label_stats call in progress whose key is
\* now resident or not, other than when the call began, has seen a change
Observed(ix) ==
    [q \in Reqs |->
        IF /\ kind[q] = "stats" /\ pc[q] \notin {"idle", "done"}
           /\ Has(ix, key[q]) # before[q].resident
        THEN [before[q] EXCEPT !.changed = TRUE]
        ELSE before[q]]

\* --------------------------------------------------- LabelBlobCache.get
\* `if os.path.exists(local):` of a new request finds the file
GetExists(r, k, kd) ==
    /\ LoopFree /\ NextSlot(r)
    /\ Exists(disk, k)
    /\ pc' = [pc EXCEPT ![r] = "fp_in"]
    /\ kind' = [kind EXCEPT ![r] = kd]
    /\ key' = [key EXCEPT ![r] = k]
    /\ before' = [before EXCEPT ![r] = AtCallStart(kd, k)]
    /\ UNCHANGED <<disk, tmp, dir, files, locks, indexes, cancelled, fd, size, total,
                   oldest, li, pos, dirty, waiting, qbox, err, getRet, resp, downloads,
                   ncancel, used, touched, stale>>

\* ... finds no file: on to `lock = await self._get_lock(blob_path)`
GetMissing(r, k, kd) ==
    /\ LoopFree /\ NextSlot(r)
    /\ ~Exists(disk, k)
    /\ pc' = [pc EXCEPT ![r] = "g_lock"]
    /\ kind' = [kind EXCEPT ![r] = kd]
    /\ key' = [key EXCEPT ![r] = k]
    /\ before' = [before EXCEPT ![r] = AtCallStart(kd, k)]
    /\ UNCHANGED <<disk, tmp, dir, files, locks, indexes, cancelled, fd, size, total,
                   oldest, li, pos, dirty, waiting, qbox, err, getRet, resp, downloads,
                   ncancel, used, touched, stale>>

\* `if blob_path in self._files:` is true
GetHitTracked(r) ==
    /\ pc[r] = "fp_in"
    /\ Has(files, key[r])
    /\ pc' = [pc EXCEPT ![r] = "fp_bump"]
    /\ UNCHANGED <<disk, tmp, dir, files, locks, indexes, kind, key, cancelled, fd,
                   size, total, oldest, li, pos, dirty, waiting, qbox, err, getRet,
                   resp, downloads, ncancel, used, touched, before, stale>>

\* ... is false: `return local`, the hit of an untracked file
GetHitUntracked(r) ==
    /\ pc[r] = "fp_in"
    /\ ~Has(files, key[r])
    /\ locks' = Release(r)
    /\ getRet' = [getRet EXCEPT ![r] = "ok"]
    /\ used' = Recent(used, key[r])
    /\ pc' = [pc EXCEPT ![r] = PcAfterGet(kind[r])]
    /\ UNCHANGED <<disk, tmp, dir, files, indexes, kind, key, cancelled, fd, size,
                   total, oldest, li, pos, dirty, waiting, qbox, err, resp, downloads,
                   ncancel, touched, before, stale>>

\* self._files.move_to_end(blob_path); return local
GetHitBump(r) ==
    /\ pc[r] = "fp_bump"
    /\ Has(files, key[r])
    /\ files' = MoveToEnd(files, key[r])
    /\ dirty' = Mutated(FilesIter, files, MoveToEnd(files, key[r]))
    /\ locks' = Release(r)
    /\ getRet' = [getRet EXCEPT ![r] = "ok"]
    /\ used' = Recent(used, key[r])
    /\ pc' = [pc EXCEPT ![r] = PcAfterGet(kind[r])]
    /\ UNCHANGED <<disk, tmp, dir, indexes, kind, key, cancelled, fd, size, total,
                   oldest, li, pos, waiting, qbox, err, resp, downloads, ncancel,
                   touched, before, stale>>

\* move_to_end raises KeyError: an eviction thread deleted the record after
\* the membership test; the handler answers 404
GetHitBumpKeyError(r) ==
    /\ pc[r] = "fp_bump"
    /\ ~Has(files, key[r])
    /\ locks' = Release(r)
    /\ err' = [err EXCEPT ![r] = "KeyError"]
    /\ getRet' = [getRet EXCEPT ![r] = "err"]
    /\ resp' = [resp EXCEPT ![r] = RespGetFailed]
    /\ pc' = [pc EXCEPT ![r] = "done"]
    /\ UNCHANGED <<disk, tmp, dir, files, indexes, kind, key, cancelled, fd, size,
                   total, oldest, li, pos, dirty, waiting, qbox, downloads, ncancel,
                   used, touched, before, stale>>

\* The per-key lock is free: `async with lock` takes it without suspending,
\* the re-check of os.path.exists finds no file, _download goes to a thread.
GetLockDownload(r) ==
    /\ pc[r] = "g_lock"
    /\ CanLock(key[r])
    /\ ~Exists(disk, key[r])
    /\ locks' = [locks EXCEPT ![key[r]] = r]
    /\ downloads' = [downloads EXCEPT ![key[r]] = @ + 1]
    /\ pc' = [pc EXCEPT ![r] = "dl_mkdir"]
    /\ UNCHANGED <<disk, tmp, dir, files, indexes, kind, key, cancelled, fd, size,
                   total, oldest, li, pos, dirty, waiting, qbox, err, getRet, resp,
                   ncancel, used, touched, before, stale>>

\* The per-key lock is free and the re-check finds the file, which a
\* worker thread has put there since the first check.
GetLockHit(r) ==
    /\ pc[r] = "g_lock"
    /\ CanLock(key[r])
    /\ Exists(disk, key[r])
    /\ locks' = [locks EXCEPT ![key[r]] = r]
    /\ pc' = [pc EXCEPT ![r] = "fp_in"]
    /\ UNCHANGED <<disk, tmp, dir, files, indexes, kind, key, cancelled, fd, size,
                   total, oldest, li, pos, dirty, waiting, qbox, err, getRet, resp,
                   downloads, ncancel, used, touched, before, stale>>

\* The per-key lock is taken: the task waits for it.
GetWait(r) ==
    /\ pc[r] = "g_lock"
    /\ ~CanLock(key[r])
    /\ waiting' = Append(waiting, r)
    /\ pc' = [pc EXCEPT ![r] = "g_waitlock"]
    /\ UNCHANGED <<disk, tmp, dir, files, locks, indexes, kind, key, cancelled, fd,
                   size, total, oldest, li, pos, dirty, qbox, err, getRet, resp,
                   downloads, ncancel, used, touched, before, stale>>

\* The lock is handed to a waiter and the file is there now.
GetRecheckHit(r) ==
    /\ LoopFree
    /\ pc[r] = "g_waitlock"
    /\ locks[key[r]] = Unlocked
    /\ Head(Waiters(key[r])) = r
    /\ waiting' = Unqueue(r)
    /\ Exists(disk, key[r])
    /\ locks' = [locks EXCEPT ![key[r]] = r]
    /\ pc' = [pc EXCEPT ![r] = "fp_in"]
    /\ UNCHANGED <<disk, tmp, dir, files, indexes, kind, key, cancelled, fd, size,
                   total, oldest, li, pos, dirty, qbox, err, getRet, resp, downloads,
                   ncancel, used, touched, before, stale>>

\* The lock is handed to a waiter and there is still no file: download.
GetRecheckMiss(r) ==
    /\ LoopFree
    /\ pc[r] = "g_waitlock"
    /\ locks[key[r]] = Unlocked
    /\ Head(Waiters(key[r])) = r
    /\ waiting' = Unqueue(r)
    /\ ~Exists(disk, key[r])
    /\ locks' = [locks EXCEPT ![key[r]] = r]
    /\ downloads' = [downloads EXCEPT ![key[r]] = @ + 1]
    /\ pc' = [pc EXCEPT ![r] = "dl_mkdir"]
    /\ UNCHANGED <<disk, tmp, dir, files, indexes, kind, key, cancelled, fd, size,
                   total, oldest, li, pos, dirty, qbox, err, getRet, resp, ncancel,
                   used, touched, before, stale>>

\* ---------------------------------------- LabelBlobCache._download (thread)
\* os.makedirs(os.path.dirname(local_path), exist_ok=True)
DownloadMkdir(r) ==
    /\ pc[r] = "dl_mkdir"
    /\ dir' = TRUE
    /\ pc' = [pc EXCEPT ![r] = "dl_open"]
    /\ UNCHANGED <<disk, tmp, files, locks, indexes, kind, key, cancelled, fd, size,
                   total, oldest, li, pos, dirty, waiting, qbox, err, getRet, resp,
                   downloads, ncancel, used, touched, before, stale>>

\* open(tmp, "wb"): creates the tmp file, or truncates the one that is there
DownloadOpen(r) ==
    /\ pc[r] = "dl_open"
    /\ dir
    /\ tmp' = [tmp EXCEPT ![key[r]] = 0]
    /\ fd' = [fd EXCEPT ![r] = "tmp"]
    /\ pc' = [pc EXCEPT ![r] = "dl_xfer"]
    /\ UNCHANGED <<disk, dir, files, locks, indexes, kind, key, cancelled, size, total,
                   oldest, li, pos, dirty, waiting, qbox, err, getRet, resp, downloads,
                   ncancel, used, touched, before, stale>>

\* open raises FileNotFoundError: an eviction has removed the directory
DownloadOpenFail(r) ==
    /\ pc[r] = "dl_open"
    /\ ~dir
    /\ err' = [err EXCEPT ![r] = "IO"]
    /\ pc' = [pc EXCEPT ![r] = ThreadEnd(r, "dl_err")]
    /\ UNCHANGED <<disk, tmp, dir, files, locks, indexes, kind, key, cancelled, fd,
                   size, total, oldest, li, pos, dirty, waiting, qbox, getRet, resp,
                   downloads, ncancel, used, touched, before, stale>>

\* download_blob, readinto: the blob, of some size, is written to the open
\* file, wherever that is linked by now; the file is closed
DownloadXfer(r) ==
    /\ pc[r] = "dl_xfer"
    /\ \E s \in BlobSizes :
         /\ tmp' = IF fd[r] = "tmp"
                   THEN [tmp EXCEPT ![key[r]] = Written(@, s)] ELSE tmp
         /\ disk' = IF fd[r] = "final"
                    THEN [disk EXCEPT ![key[r]] = Written(@, s)] ELSE disk
    /\ fd' = [fd EXCEPT ![r] = "none"]
    /\ pc' = [pc EXCEPT ![r] = "dl_rename"]
    /\ UNCHANGED <<dir, files, locks, indexes, kind, key, cancelled, size, total,
                   oldest, li, pos, dirty, waiting, qbox, err, getRet, resp, downloads,
                   ncancel, used, touched, before, stale>>

\* download_blob raises: the store has no such blob, or the transport fails.
\* The file is closed; nothing removes the tmp file.
DownloadFail(r) ==
    /\ pc[r] = "dl_xfer"
    /\ \E e \in {"NotFound", "Transport"} : err' = [err EXCEPT ![r] = e]
    /\ fd' = [fd EXCEPT ![r] = "none"]
    /\ pc' = [pc EXCEPT ![r] = ThreadEnd(r, "dl_err")]
    /\ UNCHANGED <<disk, tmp, dir, files, locks, indexes, kind, key, cancelled, size,
                   total, oldest, li, pos, dirty, waiting, qbox, getRet, resp,
                   downloads, ncancel, used, touched, before, stale>>

\* os.rename(tmp, local_path)
DownloadRename(r) ==
    /\ pc[r] = "dl_rename"
    /\ Exists(tmp, key[r])
    /\ disk' = [disk EXCEPT ![key[r]] = tmp[key[r]]]
    /\ tmp' = [tmp EXCEPT ![key[r]] = NoFile]
    /\ fd' = FdRenamed(key[r])
    /\ pc' = [pc EXCEPT ![r] = ThreadEnd(r, "dl_ok")]
    /\ UNCHANGED <<dir, files, locks, indexes, kind, key, cancelled, size, total,
                   oldest, li, pos, dirty, waiting, qbox, err, getRet, resp, downloads,
                   ncancel, used, touched, before, stale>>

\* os.rename raises: another download of the key has renamed the tmp file
DownloadRenameFail(r) ==
    /\ pc[r] = "dl_rename"
    /\ ~Exists(tmp, key[r])
    /\ err' = [err EXCEPT ![r] = "IO"]
    /\ pc' = [pc EXCEPT ![r] = ThreadEnd(r, "dl_err")]
    /\ UNCHANGED <<disk, tmp, dir, files, locks, indexes, kind, key, cancelled, fd,
                   size, total, oldest, li, pos, dirty, waiting, qbox, getRet, resp,
                   downloads, ncancel, used, touched, before, stale>>

\* ------------------------------------------- get, after the download thread
\* The exception of _download leaves get through `async with lock`.
GetDownloadFailed(r) ==
    /\ LoopFree
    /\ pc[r] = "dl_err"
    /\ locks' = Release(r)
    /\ getRet' = [getRet EXCEPT ![r] = "err"]
    /\ resp' = [resp EXCEPT ![r] = RespGetFailed]
    /\ pc' = [pc EXCEPT ![r] = "done"]
    /\ UNCHANGED <<disk, tmp, dir, files, indexes, kind, key, cancelled, fd, size,
                   total, oldest, li, pos, dirty, waiting, qbox, err, downloads,
                   ncancel, used, touched, before, stale>>

\* size = os.path.getsize(local)
GetStat(r) ==
    /\ LoopFree
    /\ pc[r] = "dl_ok"
    /\ Exists(disk, key[r])
    /\ size' = [size EXCEPT ![r] = disk[key[r]]]
    /\ pc' = [pc EXCEPT ![r] = "reg_set"]
    /\ UNCHANGED <<disk, tmp, dir, files, locks, indexes, kind, key, cancelled, fd,
                   total, oldest, li, pos, dirty, waiting, qbox, err, getRet, resp,
                   downloads, ncancel, used, touched, before, stale>>

\* os.path.getsize raises: the downloaded file is gone already
GetStatFailed(r) ==
    /\ LoopFree
    /\ pc[r] = "dl_ok"
    /\ ~Exists(disk, key[r])
    /\ locks' = Release(r)
    /\ err' = [err EXCEPT ![r] = "IO"]
    /\ getRet' = [getRet EXCEPT ![r] = "err"]
    /\ resp' = [resp EXCEPT ![r] = RespGetFailed]
    /\ pc' = [pc EXCEPT ![r] = "done"]
    /\ UNCHANGED <<disk, tmp, dir, files, indexes, kind, key, cancelled, fd, size,
                   total, oldest, li, pos, dirty, waiting, qbox, downloads, ncancel,
                   used, touched, before, stale>>

\* self._files[blob_path] = size
GetRegister(r) ==
    /\ pc[r] = "reg_set"
    /\ files' = SetItem(files, [key |-> key[r], size |-> size[r]])
    /\ dirty' = Mutated(FilesIter, files,
                        SetItem(files, [key |-> key[r], size |-> size[r]]))
    /\ size' = [size EXCEPT ![r] = 0]
    /\ used' = Recent(used, key[r])
    /\ pc' = [pc EXCEPT ![r] = "reg_bump"]
    /\ UNCHANGED <<disk, tmp, dir, locks, indexes, kind, key, cancelled, fd, total,
                   oldest, li, pos, waiting, qbox, err, getRet, resp, downloads,
                   ncancel, touched, before, stale>>

\* self._files.move_to_end(blob_path); dispatch _evict_if_needed to a thread
GetRegisterBump(r) ==
    /\ pc[r] = "reg_bump"
    /\ Has(files, key[r])
    /\ files' = MoveToEnd(files, key[r])
    /\ dirty' = Mutated(FilesIter, files, MoveToEnd(files, key[r]))
    /\ used' = Recent(used, key[r])
    /\ pc' = [pc EXCEPT ![r] = "ev_sum"]
    /\ UNCHANGED <<disk, tmp, dir, locks, indexes, kind, key, cancelled, fd, size,
                   total, oldest, li, pos, waiting, qbox, err, getRet, resp, downloads,
                   ncancel, touched, before, stale>>

\* move_to_end raises KeyError: an eviction thread deleted the new record
GetRegisterBumpKeyError(r) ==
    /\ pc[r] = "reg_bump"
    /\ ~Has(files, key[r])
    /\ locks' = Release(r)
    /\ err' = [err EXCEPT ![r] = "KeyError"]
    /\ getRet' = [getRet EXCEPT ![r] = "err"]
    /\ resp' = [resp EXCEPT ![r] = RespGetFailed]
    /\ pc' = [pc EXCEPT ![r] = "done"]
    /\ UNCHANGED <<disk, tmp, dir, files, indexes, kind, key, cancelled, fd, size,
                   total, oldest, li, pos, dirty, waiting, qbox, downloads, ncancel,
                   used, touched, before, stale>>

\* ---------------------------------- LabelBlobCache._evict_if_needed (thread)
\* total = sum(self._files.values())
EvictSum(r) ==
    /\ pc[r] = "ev_sum"
    /\ total' = [total EXCEPT ![r] = SumSize(files)]
    /\ pc' = [pc EXCEPT ![r] = "ev_test"]
    /\ UNCHANGED <<disk, tmp, dir, files, locks, indexes, kind, key, cancelled, fd,
                   size, oldest, li, pos, dirty, waiting, qbox, err, getRet, resp,
                   downloads, ncancel, used, touched, before, stale>>

\* while total > self.max_bytes and self._files: the condition holds
EvictTest(r) ==
    /\ pc[r] = "ev_test"
    /\ total[r] > MaxBytes /\ files # <<>>
    /\ pc' = [pc EXCEPT ![r] = "ev_pick"]
    /\ UNCHANGED <<disk, tmp, dir, files, locks, indexes, kind, key, cancelled, fd,
                   size, total, oldest, li, pos, dirty, waiting, qbox, err, getRet,
                   resp, downloads, ncancel, used, touched, before, stale>>

\* the condition is false: _evict_if_needed returns
EvictDone(r) ==
    /\ pc[r] = "ev_test"
    /\ ~(total[r] > MaxBytes /\ files # <<>>)
    /\ total' = [total EXCEPT ![r] = 0]
    /\ pc' = [pc EXCEPT ![r] = ThreadEnd(r, "ev_ok")]
    /\ UNCHANGED <<disk, tmp, dir, files, locks, indexes, kind, key, cancelled, fd,
                   size, oldest, li, pos, dirty, waiting, qbox, err, getRet, resp,
                   downloads, ncancel, used, touched, before, stale>>

\* iter(self._files.items()) of line 99 on a dict that is not empty
EvictPick(r) ==
    /\ pc[r] = "ev_pick"
    /\ files # <<>>
    /\ dirty' = [dirty EXCEPT ![r] = FALSE]
    /\ pc' = [pc EXCEPT ![r] = "ev_next"]
    /\ UNCHANGED <<disk, tmp, dir, files, locks, indexes, kind, key, cancelled, fd,
                   size, total, oldest, li, pos, waiting, qbox, err, getRet, resp,
                   downloads, ncancel, used, touched, before, stale>>

\* ... on an empty dict (_files was emptied after the loop test): next
\* raises StopIteration
EvictPickStop(r) ==
    /\ pc[r] = "ev_pick"
    /\ files = <<>>
    /\ err' = [err EXCEPT ![r] = "StopIteration"]
    /\ total' = [total EXCEPT ![r] = 0]
    /\ \E p \in StopOutcomes(r, "g_hung", "ev_err") : pc' = [pc EXCEPT ![r] = p]
    /\ UNCHANGED <<disk, tmp, dir, files, locks, indexes, kind, key, cancelled, fd,
                   size, oldest, li, pos, dirty, waiting, qbox, getRet, resp,
                   downloads, ncancel, used, touched, before, stale>>

\* oldest_key, oldest_size = next(...)
EvictNext(r) ==
    /\ pc[r] = "ev_next"
    /\ ~dirty[r]
    /\ oldest' = [oldest EXCEPT ![r] = Head(files)]
    /\ pc' = [pc EXCEPT ![r] = "ev_remove"]
    /\ UNCHANGED <<disk, tmp, dir, files, locks, indexes, kind, key, cancelled, fd,
                   size, total, li, pos, dirty, waiting, qbox, err, getRet, resp,
                   downloads, ncancel, used, touched, before, stale>>

\* next raises RuntimeError: OrderedDict mutated during iteration
EvictNextMutated(r) ==
    /\ pc[r] = "ev_next"
    /\ dirty[r]
    /\ dirty' = [dirty EXCEPT ![r] = FALSE]
    /\ err' = [err EXCEPT ![r] = "RuntimeError"]
    /\ total' = [total EXCEPT ![r] = 0]
    /\ pc' = [pc EXCEPT ![r] = ThreadEnd(r, "ev_err")]
    /\ UNCHANGED <<disk, tmp, dir, files, locks, indexes, kind, key, cancelled, fd,
                   size, oldest, li, pos, waiting, qbox, getRet, resp, downloads,
                   ncancel, used, touched, before, stale>>

\* os.remove(local)
EvictRemove(r) ==
    /\ pc[r] = "ev_remove"
    /\ Exists(disk, oldest[r].key)
    /\ disk' = [disk EXCEPT ![oldest[r].key] = NoFile]
    /\ fd' = FdRemoved(oldest[r].key)
    /\ pc' = [pc EXCEPT ![r] = "ev_prune"]
    /\ UNCHANGED <<tmp, dir, files, locks, indexes, kind, key, cancelled, size, total,
                   oldest, li, pos, dirty, waiting, qbox, err, getRet, resp, downloads,
                   ncancel, used, touched, before, stale>>

\* os.remove raises OSError (the file is gone already), which is passed over
EvictRemoveMissing(r) ==
    /\ pc[r] = "ev_remove"
    /\ ~Exists(disk, oldest[r].key)
    /\ pc' = [pc EXCEPT ![r] = "ev_del"]
    /\ UNCHANGED <<disk, tmp, dir, files, locks, indexes, kind, key, cancelled, fd,
                   size, total, oldest, li, pos, dirty, waiting, qbox, err, getRet,
                   resp, downloads, ncancel, used, touched, before, stale>>

\* clean empty parent directories: os.rmdir(parent) if os.listdir is empty;
\* an OSError of rmdir (a file has appeared) is passed over
EvictPrune(r) ==
    /\ pc[r] = "ev_prune"
    /\ dir' = (dir /\ ~DirEmpty)
    /\ pc' = [pc EXCEPT ![r] = "ev_del"]
    /\ UNCHANGED <<disk, tmp, files, locks, indexes, kind, key, cancelled, fd, size,
                   total, oldest, li, pos, dirty, waiting, qbox, err, getRet, resp,
                   downloads, ncancel, used, touched, before, stale>>

\* del self._files[oldest_key]; total -= oldest_size
EvictDel(r) ==
    /\ pc[r] = "ev_del"
    /\ Has(files, oldest[r].key)
    /\ files' = DelKey(files, oldest[r].key)
    /\ dirty' = Mutated(FilesIter, files, DelKey(files, oldest[r].key))
    /\ total' = [total EXCEPT ![r] = @ - oldest[r].size]
    /\ oldest' = [oldest EXCEPT ![r] = NoEntry]
    /\ pc' = [pc EXCEPT ![r] = "ev_test"]
    /\ UNCHANGED <<disk, tmp, dir, locks, indexes, kind, key, cancelled, fd, size, li,
                   pos, waiting, qbox, err, getRet, resp, downloads, ncancel, used,
                   touched, before, stale>>

\* del self._files[oldest_key] raises KeyError: the key was dropped meanwhile
EvictDelKeyError(r) ==
    /\ pc[r] = "ev_del"
    /\ ~Has(files, oldest[r].key)
    /\ err' = [err EXCEPT ![r] = "KeyError"]
    /\ total' = [total EXCEPT ![r] = 0]
    /\ oldest' = [oldest EXCEPT ![r] = NoEntry]
    /\ pc' = [pc EXCEPT ![r] = ThreadEnd(r, "ev_err")]
    /\ UNCHANGED <<disk, tmp, dir, files, locks, indexes, kind, key, cancelled, fd,
                   size, li, pos, dirty, waiting, qbox, getRet, resp, downloads,
                   ncancel, used, touched, before, stale>>

\* ------------------------------------------- get, after the eviction thread
\* return local
GetReturn(r) ==
    /\ LoopFree
    /\ pc[r] = "ev_ok"
    /\ locks' = Release(r)
    /\ getRet' = [getRet EXCEPT ![r] = "ok"]
    /\ pc' = [pc EXCEPT ![r] = PcAfterGet(kind[r])]
    /\ UNCHANGED <<disk, tmp, dir, files, indexes, kind, key, cancelled, fd, size,
                   total, oldest, li, pos, dirty, waiting, qbox, err, resp, downloads,
                   ncancel, used, touched, before, stale>>

\* The exception of _evict_if_needed leaves get; the handler answers 404.
GetEvictFailed(r) ==
    /\ LoopFree
    /\ pc[r] = "ev_err"
    /\ locks' = Release(r)
    /\ getRet' = [getRet EXCEPT ![r] = "err"]
    /\ resp' = [resp EXCEPT ![r] = RespGetFailed]
    /\ pc' = [pc EXCEPT ![r] = "done"]
    /\ UNCHANGED <<disk, tmp, dir, files, indexes, kind, key, cancelled, fd, size,
                   total, oldest, li, pos, dirty, waiting, qbox, err, downloads,
                   ncancel, used, touched, before, stale>>

\* ------------------------------------------------------------ label_stats
\* size = os.path.getsize(local_path)
StatsStat(r) ==
    /\ pc[r] = "st_stat"
    /\ Exists(disk, key[r])
    /\ size' = [size EXCEPT ![r] = disk[key[r]]]
    /\ pc' = [pc EXCEPT ![r] = "st_idx"]
    /\ UNCHANGED <<disk, tmp, dir, files, locks, indexes, kind, key, cancelled, fd,
                   total, oldest, li, pos, dirty, waiting, qbox, err, getRet, resp,
                   downloads, ncancel, used, touched, before, stale>>

\* os.path.getsize raises FileNotFoundError, which nothing catches: 500
StatsStatFailed(r) ==
    /\ pc[r] = "st_stat"
    /\ ~Exists(disk, key[r])
    /\ err' = [err EXCEPT ![r] = "IO"]
    /\ resp' = [resp EXCEPT ![r] = RespUnhandled]
    /\ pc' = [pc EXCEPT ![r] = "done"]
    /\ UNCHANGED <<disk, tmp, dir, files, locks, indexes, kind, key, cancelled, fd,
                   size, total, oldest, li, pos, dirty, waiting, qbox, getRet,
                   downloads, ncancel, used, touched, before, stale>>

\* "is_indexed": blob_path in spatial_manager._indexes; the response
StatsRespond(r) ==
    /\ pc[r] = "st_idx"
    /\ resp' = [resp EXCEPT ![r] =
                 [status |-> 200,
                  body |-> [size |-> size[r],
                            is_indexed |-> Has(indexes, key[r])]]]
    /\ size' = [size EXCEPT ![r] = 0]
    /\ pc' = [pc EXCEPT ![r] = "done"]
    /\ UNCHANGED <<disk, tmp, dir, files, locks, indexes, kind, key, cancelled, fd,
                   total, oldest, li, pos, dirty, waiting, qbox, err, getRet,
                   downloads, ncancel, used, touched, before, stale>>

\* -------------------------------- SpatialIndexManager.get_or_build (thread)
\* `if blob_path in self._indexes:` is true
IndexCheckHit(r) ==
    /\ pc[r] = "ib_check"
    /\ Has(indexes, key[r])
    /\ pc' = [pc EXCEPT ![r] = "ib_hit_bump"]
    /\ UNCHANGED <<disk, tmp, dir, files, locks, indexes, kind, key, cancelled, fd,
                   size, total, oldest, li, pos, dirty, waiting, qbox, err, getRet,
                   resp, downloads, ncancel, used, touched, before, stale>>

\* ... is false
IndexCheckMiss(r) ==
    /\ pc[r] = "ib_check"
    /\ ~Has(indexes, key[r])
    /\ pc' = [pc EXCEPT ![r] = "ib_read"]
    /\ UNCHANGED <<disk, tmp, dir, files, locks, indexes, kind, key, cancelled, fd,
                   size, total, oldest, li, pos, dirty, waiting, qbox, err, getRet,
                   resp, downloads, ncancel, used, touched, before, stale>>

\* self._indexes.move_to_end(blob_path)
IndexHitBump(r) ==
    /\ pc[r] = "ib_hit_bump"
    /\ Has(indexes, key[r])
    /\ indexes' = MoveToEnd(indexes, key[r])
    /\ dirty' = Mutated(IndexIter, indexes, MoveToEnd(indexes, key[r]))
    /\ touched' = Recent(touched, key[r])
    /\ pc' = [pc EXCEPT ![r] = "ib_hit_touch"]
    /\ UNCHANGED <<disk, tmp, dir, files, locks, kind, key, cancelled, fd, size, total,
                   oldest, li, pos, waiting, qbox, err, getRet, resp, downloads,
                   ncancel, used, before, stale>>

\* move_to_end raises KeyError: the entry was deleted after the membership test
IndexHitBumpKeyError(r) ==
    /\ pc[r] = "ib_hit_bump"
    /\ ~Has(indexes, key[r])
    /\ err' = [err EXCEPT ![r] = "KeyError"]
    /\ pc' = [pc EXCEPT ![r] = ThreadEnd(r, "ib_err")]
    /\ UNCHANGED <<disk, tmp, dir, files, locks, indexes, kind, key, cancelled, fd,
                   size, total, oldest, li, pos, dirty, waiting, qbox, getRet, resp,
                   downloads, ncancel, used, touched, before, stale>>

\* self._indexes[blob_path].last_accessed = time.time()
IndexHitTouch(r) ==
    /\ pc[r] = "ib_hit_touch"
    /\ Has(indexes, key[r])
    /\ pc' = [pc EXCEPT ![r] = "ib_hit_ret"]
    /\ UNCHANGED <<disk, tmp, dir, files, locks, indexes, kind, key, cancelled, fd,
                   size, total, oldest, li, pos, dirty, waiting, qbox, err, getRet,
                   resp, downloads, ncancel, used, touched, before, stale>>

\* self._indexes[blob_path] raises KeyError: the entry was deleted meanwhile
IndexHitTouchKeyError(r) ==
    /\ pc[r] = "ib_hit_touch"
    /\ ~Has(indexes, key[r])
    /\ err' = [err EXCEPT ![r] = "KeyError"]
    /\ pc' = [pc EXCEPT ![r] = ThreadEnd(r, "ib_err")]
    /\ UNCHANGED <<disk, tmp, dir, files, locks, indexes, kind, key, cancelled, fd,
                   size, total, oldest, li, pos, dirty, waiting, qbox, getRet, resp,
                   downloads, ncancel, used, touched, before, stale>>

\* return self._indexes[blob_path]
IndexHitReturn(r) ==
    /\ pc[r] = "ib_hit_ret"
    /\ Has(indexes, key[r])
    /\ li' = [li EXCEPT ![r] = Entry(indexes, key[r])]
    /\ pc' = [pc EXCEPT ![r] = ThreadEnd(r, "ib_ok")]
    /\ UNCHANGED <<disk, tmp, dir, files, locks, indexes, kind, key, cancelled, fd,
                   size, total, oldest, pos, dirty, waiting, qbox, err, getRet, resp,
                   downloads, ncancel, used, touched, before, stale>>

\* self._indexes[blob_path] of the return raises KeyError
IndexHitReturnKeyError(r) ==
    /\ pc[r] = "ib_hit_ret"
    /\ ~Has(indexes, key[r])
    /\ err' = [err EXCEPT ![r] = "KeyError"]
    /\ pc' = [pc EXCEPT ![r] = ThreadEnd(r, "ib_err")]
    /\ UNCHANGED <<disk, tmp, dir, files, locks, indexes, kind, key, cancelled, fd,
                   size, total, oldest, li, pos, dirty, waiting, qbox, getRet, resp,
                   downloads, ncancel, used, touched, before, stale>>

\* _build_index opens the local file and parses it
IndexRead(r) ==
    /\ pc[r] = "ib_read"
    /\ Exists(disk, key[r]) /\ disk[key[r]] > 0
    /\ pc' = [pc EXCEPT ![r] = "ib_stat"]
    /\ UNCHANGED <<disk, tmp, dir, files, locks, indexes, kind, key, cancelled, fd,
                   size, total, oldest, li, pos, dirty, waiting, qbox, err, getRet,
                   resp, downloads, ncancel, used, touched, before, stale>>

\* open raises (the file is gone) or the parser does (the file is empty)
IndexReadFail(r) ==
    /\ pc[r] = "ib_read"
    /\ ~(Exists(disk, key[r]) /\ disk[key[r]] > 0)
    /\ err' = [err EXCEPT ![r] = "IO"]
    /\ pc' = [pc EXCEPT ![r] = ThreadEnd(r, "ib_err")]
    /\ UNCHANGED <<disk, tmp, dir, files, locks, indexes, kind, key, cancelled, fd,
                   size, total, oldest, li, pos, dirty, waiting, qbox, getRet, resp,
                   downloads, ncancel, used, touched, before, stale>>

\* The LabelIndex _build_index makes of the file of k as it is on disk
BuildIndex(k) ==
    [key |-> k, count |-> Len(LabelsOf(k)), mem |-> MemEstimate(k, disk[k])]

\* file_size = os.path.getsize(local_path); return LabelIndex(...)
IndexStat(r) ==
    /\ pc[r] = "ib_stat"
    /\ Exists(disk, key[r])
    /\ li' = [li EXCEPT ![r] = BuildIndex(key[r])]
    /\ pc' = [pc EXCEPT ![r] = "ib_insert"]
    /\ UNCHANGED <<disk, tmp, dir, files, locks, indexes, kind, key, cancelled, fd,
                   size, total, oldest, pos, dirty, waiting, qbox, err, getRet, resp,
                   downloads, ncancel, used, touched, before, stale>>

\* os.path.getsize raises: the file was removed after it was parsed
IndexStatFail(r) ==
    /\ pc[r] = "ib_stat"
    /\ ~Exists(disk, key[r])
    /\ err' = [err EXCEPT ![r] = "IO"]
    /\ pc' = [pc EXCEPT ![r] = ThreadEnd(r, "ib_err")]
    /\ UNCHANGED <<disk, tmp, dir, files, locks, indexes, kind, key, cancelled, fd,
                   size, total, oldest, li, pos, dirty, waiting, qbox, getRet, resp,
                   downloads, ncancel, used, touched, before, stale>>

\* self._indexes[blob_path] = label_index
IndexInsert(r) ==
    /\ pc[r] = "ib_insert"
    /\ indexes' = SetItem(indexes, li[r])
    /\ before' = Observed(SetItem(indexes, li[r]))
    /\ dirty' = Mutated(IndexIter, indexes, SetItem(indexes, li[r]))
    /\ touched' = Recent(touched, key[r])
    /\ pc' = [pc EXCEPT ![r] = "ib_ins_bump"]
    /\ UNCHANGED <<disk, tmp, dir, files, locks, kind, key, cancelled, fd, size, total,
                   oldest, li, pos, waiting, qbox, err, getRet, resp, downloads,
                   ncancel, used, stale>>

\* self._indexes.move_to_end(blob_path)
IndexInsertBump(r) ==
    /\ pc[r] = "ib_ins_bump"
    /\ Has(indexes, key[r])
    /\ indexes' = MoveToEnd(indexes, key[r])
    /\ dirty' = Mutated(IndexIter, indexes, MoveToEnd(indexes, key[r]))
    /\ touched' = Recent(touched, key[r])
    /\ pc' = [pc EXCEPT ![r] = "ib_sum"]
    /\ UNCHANGED <<disk, tmp, dir, files, locks, kind, key, cancelled, fd, size, total,
                   oldest, li, pos, waiting, qbox, err, getRet, resp, downloads,
                   ncancel, used, before, stale>>

\* move_to_end raises KeyError: the new entry was deleted already
IndexInsertBumpKeyError(r) ==
    /\ pc[r] = "ib_ins_bump"
    /\ ~Has(indexes, key[r])
    /\ err' = [err EXCEPT ![r] = "KeyError"]
    /\ pc' = [pc EXCEPT ![r] = ThreadEnd(r, "ib_err")]
    /\ UNCHANGED <<disk, tmp, dir, files, locks, indexes, kind, key, cancelled, fd,
                   size, total, oldest, li, pos, dirty, waiting, qbox, getRet, resp,
                   downloads, ncancel, used, touched, before, stale>>

\* ------------------------- SpatialIndexManager._evict_if_needed (thread)
\* total_mb = sum(li.memory_estimate_mb for li in self._indexes.values()):
\* the iterator over the values is made
IndexEvictSum(r) ==
    /\ pc[r] = "ib_sum"
    /\ indexes # <<>>
    /\ total' = [total EXCEPT ![r] = 0]
    /\ pos' = [pos EXCEPT ![r] = 1]
    /\ dirty' = [dirty EXCEPT ![r] = FALSE]
    /\ pc' = [pc EXCEPT ![r] = "ib_summing"]
    /\ UNCHANGED <<disk, tmp, dir, files, locks, indexes, kind, key, cancelled, fd,
                   size, oldest, li, waiting, qbox, err, getRet, resp, downloads,
                   ncancel, used, touched, before, stale>>

\* ... over an empty dict: the sum is 0
IndexEvictSumEmpty(r) ==
    /\ pc[r] = "ib_sum"
    /\ indexes = <<>>
    /\ total' = [total EXCEPT ![r] = 0]
    /\ pc' = [pc EXCEPT ![r] = "ib_test"]
    /\ UNCHANGED <<disk, tmp, dir, files, locks, indexes, kind, key, cancelled, fd,
                   size, oldest, li, pos, dirty, waiting, qbox, err, getRet, resp,
                   downloads, ncancel, used, touched, before, stale>>

\* the iterator yields the next value, which is added; after the last value
\* the iterator is exhausted and the sum is complete
IndexEvictSumStep(r) ==
    /\ pc[r] = "ib_summing"
    /\ ~dirty[r]
    /\ total' = [total EXCEPT ![r] = @ + indexes[pos[r]].mem]
    /\ pos' = [pos EXCEPT ![r] = IF @ = Len(indexes) THEN 0 ELSE @ + 1]
    /\ pc' = [pc EXCEPT ![r] = IF pos[r] = Len(indexes) THEN "ib_test" ELSE "ib_summing"]
    /\ UNCHANGED <<disk, tmp, dir, files, locks, indexes, kind, key, cancelled, fd,
                   size, oldest, li, dirty, waiting, qbox, err, getRet, resp,
                   downloads, ncancel, used, touched, before, stale>>

\* the iterator raises RuntimeError: OrderedDict mutated during iteration
IndexEvictSumMutated(r) ==
    /\ pc[r] = "ib_summing"
    /\ dirty[r]
    /\ total' = [total EXCEPT ![r] = 0]
    /\ pos' = [pos EXCEPT ![r] = 0]
    /\ dirty' = [dirty EXCEPT ![r] = FALSE]
    /\ err' = [err EXCEPT ![r] = "RuntimeError"]
    /\ pc' = [pc EXCEPT ![r] = ThreadEnd(r, "ib_err")]
    /\ UNCHANGED <<disk, tmp, dir, files, locks, indexes, kind, key, cancelled, fd,
                   size, oldest, li, waiting, qbox, getRet, resp, downloads, ncancel,
                   used, touched, before, stale>>

\* the while condition of the index eviction
IndexOver(r) ==
    (Len(indexes) > MaxIndexes \/ total[r] > MaxMemoryMb) /\ indexes # <<>>

\* the condition holds
IndexEvictTest(r) ==
    /\ pc[r] = "ib_test"
    /\ IndexOver(r)
    /\ pc' = [pc EXCEPT ![r] = "ib_pick"]
    /\ UNCHANGED <<disk, tmp, dir, files, locks, indexes, kind, key, cancelled, fd,
                   size, total, oldest, li, pos, dirty, waiting, qbox, err, getRet,
                   resp, downloads, ncancel, used, touched, before, stale>>

\* the condition is false: get_or_build returns label_index
IndexEvictDone(r) ==
    /\ pc[r] = "ib_test"
    /\ ~IndexOver(r)
    /\ total' = [total EXCEPT ![r] = 0]
    /\ pc' = [pc EXCEPT ![r] = ThreadEnd(r, "ib_ok")]
    /\ UNCHANGED <<disk, tmp, dir, files, locks, indexes, kind, key, cancelled, fd,
                   size, oldest, li, pos, dirty, waiting, qbox, err, getRet, resp,
                   downloads, ncancel, used, touched, before, stale>>

\* iter(self._indexes.items()) of line 126 on a dict that is not empty
IndexEvictPick(r) ==
    /\ pc[r] = "ib_pick"
    /\ indexes # <<>>
    /\ dirty' = [dirty EXCEPT ![r] = FALSE]
    /\ pc' = [pc EXCEPT ![r] = "ib_next"]
    /\ UNCHANGED <<disk, tmp, dir, files, locks, indexes, kind, key, cancelled, fd,
                   size, total, oldest, li, pos, waiting, qbox, err, getRet, resp,
                   downloads, ncancel, used, touched, before, stale>>

\* ... on an empty dict (_indexes was emptied after the loop test): next
\* raises StopIteration
IndexEvictPickStop(r) ==
    /\ pc[r] = "ib_pick"
    /\ indexes = <<>>
    /\ err' = [err EXCEPT ![r] = "StopIteration"]
    /\ total' = [total EXCEPT ![r] = 0]
    /\ \E p \in StopOutcomes(r, "ib_hung", "ib_err") : pc' = [pc EXCEPT ![r] = p]
    /\ UNCHANGED <<disk, tmp, dir, files, locks, indexes, kind, key, cancelled, fd,
                   size, oldest, li, pos, dirty, waiting, qbox, getRet, resp,
                   downloads, ncancel, used, touched, before, stale>>

\* oldest_key, oldest = next(...)
IndexEvictNext(r) ==
    /\ pc[r] = "ib_next"
    /\ ~dirty[r]
    /\ oldest' = [oldest EXCEPT ![r] = Head(indexes)]
    /\ pc' = [pc EXCEPT ![r] = "ib_del"]
    /\ UNCHANGED <<disk, tmp, dir, files, locks, indexes, kind, key, cancelled, fd,
                   size, total, li, pos, dirty, waiting, qbox, err, getRet, resp,
                   downloads, ncancel, used, touched, before, stale>>

\* next raises RuntimeError: OrderedDict mutated during iteration
IndexEvictNextMutated(r) ==
    /\ pc[r] = "ib_next"
    /\ dirty[r]
    /\ dirty' = [dirty EXCEPT ![r] = FALSE]
    /\ err' = [err EXCEPT ![r] = "RuntimeError"]
    /\ total' = [total EXCEPT ![r] = 0]
    /\ pc' = [pc EXCEPT ![r] = ThreadEnd(r, "ib_err")]
    /\ UNCHANGED <<disk, tmp, dir, files, locks, indexes, kind, key, cancelled, fd,
                   size, oldest, li, pos, waiting, qbox, getRet, resp, downloads,
                   ncancel, used, touched, before, stale>>

\* total_mb -= oldest.memory_estimate_mb; del self._indexes[oldest_key]
IndexEvictDel(r) ==
    /\ pc[r] = "ib_del"
    /\ Has(indexes, oldest[r].key)
    /\ indexes' = DelKey(indexes, oldest[r].key)
    /\ before' = Observed(DelKey(indexes, oldest[r].key))
    /\ dirty' = Mutated(IndexIter, indexes, DelKey(indexes, oldest[r].key))
    /\ total' = [total EXCEPT ![r] = @ - oldest[r].mem]
    /\ oldest' = [oldest EXCEPT ![r] = NoEntry]
    /\ pc' = [pc EXCEPT ![r] = "ib_test"]
    /\ UNCHANGED <<disk, tmp, dir, files, locks, kind, key, cancelled, fd, size, li,
                   pos, waiting, qbox, err, getRet, resp, downloads, ncancel, used,
                   touched, stale>>

\* del self._indexes[oldest_key] raises KeyError
IndexEvictDelKeyError(r) ==
    /\ pc[r] = "ib_del"
    /\ ~Has(indexes, oldest[r].key)
    /\ err' = [err EXCEPT ![r] = "KeyError"]
    /\ total' = [total EXCEPT ![r] = 0]
    /\ oldest' = [oldest EXCEPT ![r] = NoEntry]
    /\ pc' = [pc EXCEPT ![r] = ThreadEnd(r, "ib_err")]
    /\ UNCHANGED <<disk, tmp, dir, files, locks, indexes, kind, key, cancelled, fd,
                   size, li, pos, dirty, waiting, qbox, getRet, resp, downloads,
                   ncancel, used, touched, before, stale>>

\* ------------------------------------------- get_labels, after get_or_build
\* get_or_build raised: 500
LabelsIndexFailed(r) ==
    /\ LoopFree
    /\ pc[r] = "ib_err"
    /\ resp' = [resp EXCEPT ![r] = [status |-> 500, body |-> <<>>]]
    /\ pc' = [pc EXCEPT ![r] = "done"]
    /\ UNCHANGED <<disk, tmp, dir, files, locks, indexes, kind, key, cancelled, fd,
                   size, total, oldest, li, pos, dirty, waiting, qbox, err, getRet,
                   downloads, ncancel, used, touched, before, stale>>

\* bbox is None: the stats-only response
LabelsStatsOnly(r) ==
    /\ LoopFree
    /\ pc[r] = "ib_ok"
    /\ resp' = [resp EXCEPT ![r] =
                 [status |-> 200,
                  body |-> [total_labels |-> li[r].count, memory_mb |-> li[r].mem]]]
    /\ pc' = [pc EXCEPT ![r] = "done"]
    /\ UNCHANGED <<disk, tmp, dir, files, locks, indexes, kind, key, cancelled, fd,
                   size, total, oldest, li, pos, dirty, waiting, qbox, err, getRet,
                   downloads, ncancel, used, touched, before, stale>>

\* bbox does not parse: 400
LabelsBadBBox(r) ==
    /\ LoopFree
    /\ pc[r] = "ib_ok"
    /\ \E p \in BBoxParams : p.given /\ ParseBBox(p.parts) = BadBBox
    /\ resp' = [resp EXCEPT ![r] = [status |-> 400, body |-> <<>>]]
    /\ pc' = [pc EXCEPT ![r] = "done"]
    /\ UNCHANGED <<disk, tmp, dir, files, locks, indexes, kind, key, cancelled, fd,
                   size, total, oldest, li, pos, dirty, waiting, qbox, err, getRet,
                   downloads, ncancel, used, touched, before, stale>>

\* bbox parses: dispatch query_bbox to a thread
LabelsQuery(r) ==
    /\ LoopFree
    /\ pc[r] = "ib_ok"
    /\ \E p \in BBoxParams :
         /\ p.given /\ ParseBBox(p.parts) # BadBBox
         /\ qbox' = [qbox EXCEPT ![r] = ParseBBox(p.parts)]
    /\ li' = [li EXCEPT ![r] = NoEntry]
    /\ pc' = [pc EXCEPT ![r] = "q_get"]
    /\ UNCHANGED <<disk, tmp, dir, files, locks, indexes, kind, key, cancelled, fd,
                   size, total, oldest, pos, dirty, waiting, err, getRet, resp,
                   downloads, ncancel, used, touched, before, stale>>

\* ---------------------------------- SpatialIndexManager.query_bbox (thread)
\* li = self._indexes.get(blob_path); if not li: return []
QueryMiss(r) ==
    /\ pc[r] = "q_get"
    /\ ~Has(indexes, key[r])
    /\ resp' = [resp EXCEPT ![r] = [status |-> 0, body |-> <<>>]]
    /\ pc' = [pc EXCEPT ![r] = ThreadEnd(r, "q_ok")]
    /\ UNCHANGED <<disk, tmp, dir, files, locks, indexes, kind, key, cancelled, fd,
                   size, total, oldest, li, pos, dirty, waiting, qbox, err, getRet,
                   downloads, ncancel, used, touched, before, stale>>

\* li = self._indexes.get(blob_path) finds the entry
QueryGet(r) ==
    /\ pc[r] = "q_get"
    /\ Has(indexes, key[r])
    /\ li' = [li EXCEPT ![r] = Entry(indexes, key[r])]
    /\ pc' = [pc EXCEPT ![r] = "q_bump"]
    /\ UNCHANGED <<disk, tmp, dir, files, locks, indexes, kind, key, cancelled, fd,
                   size, total, oldest, pos, dirty, waiting, qbox, err, getRet, resp,
                   downloads, ncancel, used, touched, before, stale>>

\* self._indexes.move_to_end(blob_path), then on the local li:
\* return [li.labels[i] for i in rtree.intersection(bbox)]; the labels are
\* given by their ids, in the order the R-tree yields them.
QueryHit(r) ==
    /\ pc[r] = "q_bump"
    /\ Has(indexes, key[r])
    /\ indexes' = MoveToEnd(indexes, key[r])
    /\ dirty' = Mutated(IndexIter, indexes, MoveToEnd(indexes, key[r]))
    /\ touched' = Recent(touched, key[r])
    /\ \E ids \in Orders(RtreeIntersection(LabelsOf(li[r].key), qbox[r])) :
         resp' = [resp EXCEPT ![r] = [status |-> 0, body |-> ids]]
    /\ pc' = [pc EXCEPT ![r] = ThreadEnd(r, "q_ok")]
    /\ UNCHANGED <<disk, tmp, dir, files, locks, kind, key, cancelled, fd, size, total,
                   oldest, li, pos, waiting, qbox, err, getRet, downloads, ncancel,
                   used, before, stale>>

\* move_to_end raises KeyError: the entry was deleted after the get
QueryBumpKeyError(r) ==
    /\ pc[r] = "q_bump"
    /\ ~Has(indexes, key[r])
    /\ err' = [err EXCEPT ![r] = "KeyError"]
    /\ pc' = [pc EXCEPT ![r] = ThreadEnd(r, "q_err")]
    /\ UNCHANGED <<disk, tmp, dir, files, locks, indexes, kind, key, cancelled, fd,
                   size, total, oldest, li, pos, dirty, waiting, qbox, getRet, resp,
                   downloads, ncancel, used, touched, before, stale>>

\* the JSON response of get_labels
LabelsRespond(r) ==
    /\ LoopFree
    /\ pc[r] = "q_ok"
    /\ resp' = [resp EXCEPT ![r].status = 200]
    /\ pc' = [pc EXCEPT ![r] = "done"]
    /\ UNCHANGED <<disk, tmp, dir, files, locks, indexes, kind, key, cancelled, fd,
                   size, total, oldest, li, pos, dirty, waiting, qbox, err, getRet,
                   downloads, ncancel, used, touched, before, stale>>

\* query_bbox raised; get_labels does not catch it: 500
LabelsQueryFailed(r) ==
    /\ LoopFree
    /\ pc[r] = "q_err"
    /\ resp' = [resp EXCEPT ![r] = RespUnhandled]
    /\ pc' = [pc EXCEPT ![r] = "done"]
    /\ UNCHANGED <<disk, tmp, dir, files, locks, indexes, kind, key, cancelled, fd,
                   size, total, oldest, li, pos, dirty, waiting, qbox, err, getRet,
                   downloads, ncancel, used, touched, before, stale>>

\* ------------------------------------------------------- invalidate_cache
\* `if blob_path in spatial_manager._indexes:` is true
InvalidateIndexed(r, k) ==
    /\ LoopFree /\ NextSlot(r)
    /\ Has(indexes, k)
    /\ pc' = [pc EXCEPT ![r] = "inv_del"]
    /\ kind' = [kind EXCEPT ![r] = "invalidate"]
    /\ key' = [key EXCEPT ![r] = k]
    /\ UNCHANGED <<disk, tmp, dir, files, locks, indexes, cancelled, fd, size, total,
                   oldest, li, pos, dirty, waiting, qbox, err, getRet, resp, downloads,
                   ncancel, used, touched, before, stale>>

\* ... is false: on to label_blob_cache.remove
InvalidateNotIndexed(r, k) ==
    /\ LoopFree /\ NextSlot(r)
    /\ ~Has(indexes, k)
    /\ pc' = [pc EXCEPT ![r] = "inv_remove"]
    /\ kind' = [kind EXCEPT ![r] = "invalidate"]
    /\ key' = [key EXCEPT ![r] = k]
    /\ UNCHANGED <<disk, tmp, dir, files, locks, indexes, cancelled, fd, size, total,
                   oldest, li, pos, dirty, waiting, qbox, err, getRet, resp, downloads,
                   ncancel, used, touched, before, stale>>

\* del spatial_manager._indexes[blob_path]
InvalidateIndexDel(r) ==
    /\ pc[r] = "inv_del"
    /\ Has(indexes, key[r])
    /\ indexes' = DelKey(indexes, key[r])
    /\ before' = Observed(DelKey(indexes, key[r]))
    /\ dirty' = Mutated(IndexIter, indexes, DelKey(indexes, key[r]))
    /\ pc' = [pc EXCEPT ![r] = "inv_remove"]
    /\ UNCHANGED <<disk, tmp, dir, files, locks, kind, key, cancelled, fd, size, total,
                   oldest, li, pos, waiting, qbox, err, getRet, resp, downloads,
                   ncancel, used, touched, stale>>

\* del raises KeyError (an index eviction deleted the entry after the
\* membership test), which nothing catches: 500
InvalidateIndexDelKeyError(r) ==
    /\ pc[r] = "inv_del"
    /\ ~Has(indexes, key[r])
    /\ err' = [err EXCEPT ![r] = "KeyError"]
    /\ resp' = [resp EXCEPT ![r] = RespUnhandled]
    /\ pc' = [pc EXCEPT ![r] = "done"]
    /\ UNCHANGED <<disk, tmp, dir, files, locks, indexes, kind, key, cancelled, fd,
                   size, total, oldest, li, pos, dirty, waiting, qbox, getRet,
                   downloads, ncancel, used, touched, before, stale>>

\* LabelBlobCache.remove: os.remove(local)
InvalidateRemove(r) ==
    /\ pc[r] = "inv_remove"
    /\ Exists(disk, key[r])
    /\ disk' = [disk EXCEPT ![key[r]] = NoFile]
    /\ fd' = FdRemoved(key[r])
    /\ pc' = [pc EXCEPT ![r] = "inv_in"]
    /\ UNCHANGED <<tmp, dir, files, locks, indexes, kind, key, cancelled, size, total,
                   oldest, li, pos, dirty, waiting, qbox, err, getRet, resp, downloads,
                   ncancel, used, touched, before, stale>>

\* os.remove raises OSError, which skips the del; {"invalidated": true}
InvalidateRemoveMissing(r) ==
    /\ pc[r] = "inv_remove"
    /\ ~Exists(disk, key[r])
    /\ stale' = stale \cup BuiltFrom(key[r])
    /\ resp' = [resp EXCEPT ![r] = [status |-> 200, body |-> <<>>]]
    /\ pc' = [pc EXCEPT ![r] = "done"]
    /\ UNCHANGED <<disk, tmp, dir, files, locks, indexes, kind, key, cancelled, fd,
                   size, total, oldest, li, pos, dirty, waiting, qbox, err, getRet,
                   downloads, ncancel, used, touched, before>>

\* `if blob_path in self._files:` is true
InvalidateTracked(r) ==
    /\ pc[r] = "inv_in"
    /\ Has(files, key[r])
    /\ pc' = [pc EXCEPT ![r] = "inv_fdel"]
    /\ UNCHANGED <<disk, tmp, dir, files, locks, indexes, kind, key, cancelled, fd,
                   size, total, oldest, li, pos, dirty, waiting, qbox, err, getRet,
                   resp, downloads, ncancel, used, touched, before, stale>>

\* ... is false; {"invalidated": true}
InvalidateUntracked(r) ==
    /\ pc[r] = "inv_in"
    /\ ~Has(files, key[r])
    /\ stale' = stale \cup BuiltFrom(key[r])
    /\ resp' = [resp EXCEPT ![r] = [status |-> 200, body |-> <<>>]]
    /\ pc' = [pc EXCEPT ![r] = "done"]
    /\ UNCHANGED <<disk, tmp, dir, files, locks, indexes, kind, key, cancelled, fd,
                   size, total, oldest, li, pos, dirty, waiting, qbox, err, getRet,
                   downloads, ncancel, used, touched, before>>

\* del self._files[blob_path]; {"invalidated": true}
InvalidateFileDel(r) ==
    /\ pc[r] = "inv_fdel"
    /\ Has(files, key[r])
    /\ files' = DelKey(files, key[r])
    /\ dirty' = Mutated(FilesIter, files, DelKey(files, key[r]))
    /\ stale' = stale \cup BuiltFrom(key[r])
    /\ resp' = [resp EXCEPT ![r] = [status |-> 200, body |-> <<>>]]
    /\ pc' = [pc EXCEPT ![r] = "done"]
    /\ UNCHANGED <<disk, tmp, dir, locks, indexes, kind, key, cancelled, fd, size,
                   total, oldest, li, pos, waiting, qbox, err, getRet, downloads,
                   ncancel, used, touched, before>>

\* del raises KeyError (an eviction thread deleted the record after the
\* membership test); remove catches OSError only: 500
InvalidateFileDelKeyError(r) ==
    /\ pc[r] = "inv_fdel"
    /\ ~Has(files, key[r])
    /\ err' = [err EXCEPT ![r] = "KeyError"]
    /\ resp' = [resp EXCEPT ![r] = RespUnhandled]
    /\ pc' = [pc EXCEPT ![r] = "done"]
    /\ UNCHANGED <<disk, tmp, dir, files, locks, indexes, kind, key, cancelled, fd,
                   size, total, oldest, li, pos, dirty, waiting, qbox, getRet,
                   downloads, ncancel, used, touched, before, stale>>

\* ------------------------------------------------------------ cancellation
ThreadRunning ==
    {"dl_mkdir", "dl_open", "dl_xfer", "dl_rename",
     "ev_sum", "ev_test", "ev_pick", "ev_next", "ev_remove", "ev_prune", "ev_del",
     "ib_check", "ib_hit_bump", "ib_hit_touch", "ib_hit_ret", "ib_read", "ib_stat",
     "ib_insert", "ib_ins_bump", "ib_sum", "ib_summing", "ib_test", "ib_pick",
     "ib_next", "ib_del",
     "q_get", "q_bump"}

ThreadFinished ==
    {"dl_ok", "dl_err", "ev_ok", "ev_err", "ib_ok", "ib_err", "q_ok", "q_err"}

\* the task waits for a future that is never set
Hung == {"g_hung", "ib_hung"}

InGet == {"g_waitlock", "dl_mkdir", "dl_open", "dl_xfer", "dl_rename", "dl_ok", "dl_err",
          "ev_sum", "ev_test", "ev_pick", "ev_next", "ev_remove", "ev_prune", "ev_del",
          "ev_ok", "ev_err", "g_hung"}

\* The request task is cancelled at the await it is suspended in.  CancelledError
\* leaves `async with lock`; a worker thread that is running runs on.
Cancel(r) ==
    /\ LoopFree
    /\ ncancel < MaxCancel
    /\ ~cancelled[r]
    /\ pc[r] \in ThreadRunning \cup ThreadFinished \cup Hung \cup {"g_waitlock"}
    /\ ncancel' = ncancel + 1
    /\ waiting' = Unqueue(r)
    /\ locks' = Release(r)
    /\ getRet' = [getRet EXCEPT ![r] = IF pc[r] \in InGet THEN "cancelled" ELSE @]
    /\ resp' = [resp EXCEPT ![r] = [status |-> 499, body |-> <<>>]]
    /\ cancelled' = [cancelled EXCEPT ![r] = pc[r] \in ThreadRunning]
    /\ pc' = [pc EXCEPT ![r] = IF pc[r] \in ThreadRunning THEN @ ELSE "done"]
    /\ UNCHANGED <<disk, tmp, dir, files, indexes, kind, key, fd, size, total, oldest,
                   li, pos, dirty, qbox, err, downloads, used, touched, before, stale>>

\* ------------------------------------------------------------ specification
GetKinds == {"labels", "stats"}

Next ==
    \E r \in Reqs :
        \/ \E k \in Keys, kd \in GetKinds : GetExists(r, k, kd)
        \/ \E k \in Keys, kd \in GetKinds : GetMissing(r, k, kd)
        \/ GetHitTracked(r)
        \/ GetHitUntracked(r)
        \/ GetHitBump(r)
        \/ GetHitBumpKeyError(r)
        \/ GetLockDownload(r)
        \/ GetLockHit(r)
        \/ GetWait(r)
        \/ GetRecheckHit(r)
        \/ GetRecheckMiss(r)
        \/ DownloadMkdir(r)
        \/ DownloadOpen(r)
        \/ DownloadOpenFail(r)
        \/ DownloadXfer(r)
        \/ DownloadFail(r)
        \/ DownloadRename(r)
        \/ DownloadRenameFail(r)
        \/ GetDownloadFailed(r)
        \/ GetStat(r)
        \/ GetStatFailed(r)
        \/ GetRegister(r)
        \/ GetRegisterBump(r)
        \/ GetRegisterBumpKeyError(r)
        \/ EvictSum(r)
        \/ EvictTest(r)
        \/ EvictDone(r)
        \/ EvictPick(r)
        \/ EvictPickStop(r)
        \/ EvictNext(r)
        \/ EvictNextMutated(r)
        \/ EvictRemove(r)
        \/ EvictRemoveMissing(r)
        \/ EvictPrune(r)
        \/ EvictDel(r)
        \/ EvictDelKeyError(r)
        \/ GetReturn(r)
        \/ GetEvictFailed(r)
        \/ StatsStat(r)
        \/ StatsStatFailed(r)
        \/ StatsRespond(r)
        \/ IndexCheckHit(r)
        \/ IndexCheckMiss(r)
        \/ IndexHitBump(r)
        \/ IndexHitBumpKeyError(r)
        \/ IndexHitTouch(r)
        \/ IndexHitTouchKeyError(r)
        \/ IndexHitReturn(r)
        \/ IndexHitReturnKeyError(r)
        \/ IndexRead(r)
        \/ IndexReadFail(r)
        \/ IndexStat(r)
        \/ IndexStatFail(r)
        \/ IndexInsert(r)
        \/ IndexInsertBump(r)
        \/ IndexInsertBumpKeyError(r)
        \/ IndexEvictSum(r)
        \/ IndexEvictSumEmpty(r)
        \/ IndexEvictSumStep(r)
        \/ IndexEvictSumMutated(r)
        \/ IndexEvictTest(r)
        \/ IndexEvictDone(r)
        \/ IndexEvictPick(r)
        \/ IndexEvictPickStop(r)
        \/ IndexEvictNext(r)
        \/ IndexEvictNextMutated(r)
        \/ IndexEvictDel(r)
        \/ IndexEvictDelKeyError(r)
        \/ LabelsIndexFailed(r)
        \/ LabelsStatsOnly(r)
        \/ LabelsBadBBox(r)
        \/ LabelsQuery(r)
        \/ QueryMiss(r)
        \/ QueryGet(r)
        \/ QueryHit(r)
        \/ QueryBumpKeyError(r)
        \/ LabelsRespond(r)
        \/ LabelsQueryFailed(r)
        \/ \E k \in Keys : InvalidateIndexed(r, k)
        \/ \E k \in Keys : InvalidateNotIndexed(r, k)
        \/ InvalidateIndexDel(r)
        \/ InvalidateIndexDelKeyError(r)
        \/ InvalidateRemove(r)
        \/ InvalidateRemoveMissing(r)
        \/ InvalidateTracked(r)
        \/ InvalidateUntracked(r)
        \/ InvalidateFileDel(r)
        \/ InvalidateFileDelKeyError(r)
        \/ Cancel(r)

Spec == Init /\ [][Next]_vars

\* ------------------------------------------------------------ properties
Range(q) == {q[i] : i \in 1..Len(q)}

\* steps at which a call returns to its caller
GetReturnsOk(r) == getRet[r] = "none" /\ getRet'[r] = "ok"
GetReturns(r) == getRet[r] = "none" /\ getRet'[r] \in {"ok", "err"}
RemoveReturns(r) == pc[r] \in {"inv_remove", "inv_in", "inv_fdel"} /\ pc'[r] = "done"
InvalidateReturns(r) == kind[r] = "invalidate" /\ pc[r] # "done" /\ pc'[r] = "done"
GetOrBuildReturns(r) ==
    /\ pc[r] \in ThreadRunning /\ pc[r] \notin {"q_get", "q_bump"}
    /\ pc'[r] \in {"ib_ok", "ib_err"}
QueryReturns(r) == pc[r] \in {"q_get", "q_bump"} /\ pc'[r] \in {"q_ok", "q_err"}

\* no request has been cancelled
NoCancel == ncancel = 0

\* nothing but get calls (of /labels and /labels/stats) has been issued
OnlyGets == \A q \in Reqs : kind[q] # "invalidate"

\* every other request is a get call on another key
OthersGetOtherKeys(r) ==
    \A q \in Reqs \ {r} : kind[q] # "invalidate" /\ key[q] # key[r]

\* r is the only request issued so far
Solo(r) == \A q \in Reqs \ {r} : pc[q] = "idle"

\* C1: whenever get(key) returns successfully, the file cache_dir/key exists
\* at that moment, for every blob size and every interleaving with get calls
\* on other keys.
C1_ReturnedPathExists ==
    [][\A r \in Reqs :
         (GetReturnsOk(r) /\ NoCancel' /\ OthersGetOtherKeys(r)')
             => Exists(disk', key'[r])]_vars

\* C2: from an empty disk cache, right after any get or remove call returns,
\* the sizes tracked in the disk LRU sum to at most cache_max_bytes, under any
\* interleaving of get and remove calls.
C2_DiskBoundAfterReturn ==
    [][(NoCancel' /\ \E r \in Reqs : GetReturns(r) \/ RemoveReturns(r))
           => SumSize(files') <= MaxBytes]_vars

\* C3: single-flight: of the get(k) calls issued while k is not on disk, one
\* downloads and the callers that waited for the per-key lock return that
\* file without downloading again, whatever the blob size and whether or not
\* the first download succeeds.
C3_WaiterNeverDownloads ==
    [][\A r \in Reqs :
         (pc[r] = "g_waitlock" /\ NoCancel /\ OnlyGets) => pc'[r] # "dl_mkdir"]_vars

\* C4: a /labels request with a well-formed bbox that completes with 200
\* returns exactly the labels of the blob whose bbox intersects the query
\* bbox, under any interleaving with other builds and invalidations.
C4_QueryExact ==
    \A r \in Reqs :
        (NoCancel /\ kind[r] = "labels" /\ pc[r] = "done" /\ resp[r].status = 200
            /\ qbox[r] # <<>>)
        => Range(resp[r].body) = RtreeIntersection(LabelsOf(key[r]), qbox[r])

\* C5: right after get_or_build, query_bbox or invalidate returns, the index
\* cache holds at most max_indexes entries and at most max_memory_mb of
\* estimated memory, under any interleaving.
C5_IndexBoundsAfterReturn ==
    [][(NoCancel' /\ \E r \in Reqs :
            GetOrBuildReturns(r) \/ QueryReturns(r) \/ InvalidateReturns(r))
           => (Len(indexes') <= MaxIndexes /\ SumMem(indexes') <= MaxMemoryMb)]_vars

\* no request is in progress and no worker thread is running
Quiescent == \A r \in Reqs : pc[r] \in {"idle", "done"}

\* C6: whenever no call is in progress (after failed and cancelled calls
\* too), every tracked key has its file with the recorded size and every
\* file that is not a .tmp file is tracked.
C6_DiskTierConsistent ==
    Quiescent =>
        /\ \A i \in 1..Len(files) : disk[files[i].key] = files[i].size
        /\ \A k \in Keys : Exists(disk, k) => Has(files, k)

\* C7: whenever get(key) returns successfully, key is tracked in the disk LRU
\* at the most-recently-used position, on each return path of get.
C7_ReturnedKeyIsMRU ==
    [][\A r \in Reqs :
         (GetReturnsOk(r) /\ NoCancel' /\ Solo(r))
             => (files' # <<>> /\ files'[Len(files')].key = key'[r])]_vars

\* C8: after POST /labels/invalidate for k returns, k has no index entry, no
\* tracking record and no file, and the call has not failed; also when the
\* file of k was missing while its tracking record was present.
C8_InvalidateClearsKey ==
    [][\A r \in Reqs :
         (InvalidateReturns(r) /\ NoCancel')
             => /\ resp'[r].status = 200
                /\ ~Has(indexes', key[r])
                /\ ~Has(files', key[r])
                /\ ~Exists(disk', key[r])]_vars

\* get returns after its download failed; a step of a get that is downloading
DownloadFailedReturn(r) ==
    pc[r] = "dl_err" /\ pc'[r] = "done" /\ getRet'[r] # "cancelled"

FailingDownloadStep(r) ==
    pc'[r] # pc[r] /\ pc'[r] \in {"dl_mkdir", "dl_open", "dl_xfer", "dl_rename", "dl_err"}

\* C9: when the download of get(key) fails with a transport or I/O error, get
\* returns the error, cache_dir/key.tmp no longer exists, and no step of the
\* call has changed the disk LRU; the key is not registered.
C9_FailedDownloadLeavesNothing ==
    [][\A r \in Reqs :
         /\ (FailingDownloadStep(r) /\ Solo(r)) => files' = files
         /\ (DownloadFailedReturn(r) /\ Solo(r) /\ NoCancel')
               => /\ getRet'[r] = "err"
                  /\ ~Exists(tmp', key[r])
                  /\ files' = files
                  /\ ~Has(files', key[r])]_vars

\* get_or_build returns after building an entry larger than max_memory_mb
BuiltOversized(r) ==
    /\ pc[r] \in {"ib_sum", "ib_summing", "ib_test", "ib_pick", "ib_next", "ib_del"}
    /\ pc'[r] \in {"ib_ok", "ib_err"}
    /\ li[r].mem > MaxMemoryMb

\* C10: when get_or_build builds an entry whose memory estimate alone exceeds
\* max_memory_mb, either it fails with OutOfMemory and leaves the index cache
\* as it was, or it succeeds and the new entry is the only entry of the cache.
C10_OversizedEntryRejectedOrAlone ==
    [][\A r \in Reqs :
         (BuiltOversized(r) /\ Solo(r) /\ NoCancel')
             => \/ pc'[r] = "ib_err" /\ err'[r] = "OutOfMemory" /\ indexes' = indexes
                \/ pc'[r] = "ib_ok" /\ indexes' = <<li[r]>>]_vars

\* position of key k in a use/touch order, 0 when k was never used
PosIn(order, k) ==
    IF \E i \in 1..Len(order) : order[i] = k
    THEN CHOOSE i \in 1..Len(order) : order[i] = k
    ELSE 0

\* the eviction pass of r deletes the tracking record it picked
DiskEvicts(r) == pc[r] = "ev_del" /\ pc'[r] = "ev_test" /\ files' # files

\* C11: disk eviction is strictly LRU over uses (registration after a download,
\* successful get hit): an eviction pass that removes tracked key e and leaves
\* tracked key s has last use of s later than last use of e; so the most
\* recently used key, when its size alone fits cache_max_bytes, is not removed
\* by the pass (get p then get q leaves q tracked and on disk).
C11_DiskEvictionIsLRU ==
    [][\A r \in Reqs :
         (DiskEvicts(r) /\ NoCancel /\ OnlyGets)
             => /\ \A s \in KeysOf(files') :
                       PosIn(used, s) > PosIn(used, oldest[r].key)
                /\ ~(/\ PosIn(used, oldest[r].key) = Len(used)
                     /\ oldest[r].size <= MaxBytes)]_vars

\* GET /labels has answered after LabelBlobCache.get raised
LabelsFetchFailed(r) == kind[r] = "labels" /\ pc[r] = "done" /\ getRet[r] = "err"

\* C12: GET /labels answers 404 exactly when the object store reports the blob
\* missing (NotFound), and a 5xx status when the fetch fails with a Transport
\* or a local IO error.
C12_FetchFailureStatus ==
    \A r \in Reqs :
        (LabelsFetchFailed(r) /\ Solo(r))
            => /\ resp[r].status = 404 <=> err[r] = "NotFound"
               /\ err[r] \in {"Transport", "IO"} => resp[r].status \in 500..599

\* a step taken by request r
StepOf(r) == pc'[r] # pc[r]

\* GET /labels/stats answers 200
StatsResponds(r) ==
    kind'[r] = "stats" /\ pc[r] # "done" /\ pc'[r] = "done" /\ resp'[r].status = 200

\* C13 as the claim words it: no step of a GET /labels/stats call creates or
\* evicts an index entry or changes the LRU order, and the is_indexed field of
\* its answer equals whether the key was resident in the index cache before
\* the call.
C13_IndexedAsBeforeCall ==
    [][\A r \in Reqs :
         /\ (StepOf(r) /\ kind'[r] = "stats")
                => indexes' = indexes /\ touched' = touched
         /\ StatsResponds(r)
                => resp'[r].body.is_indexed = before[r].resident]_vars

\* C13: GET /labels/stats leaves the index cache unchanged: no step of the
\* call creates or evicts an index entry or changes the LRU order; only the
\* disk tier may be affected. The is_indexed field of its answer is whether
\* the key is resident in the index cache when the answer is built; that is
\* its residency before the call unless another request inserted or deleted
\* the index entry of the key while the call was in progress.
C13_StatsLeavesIndexCache ==
    [][\A r \in Reqs :
         /\ (StepOf(r) /\ kind'[r] = "stats")
                => indexes' = indexes /\ touched' = touched
         /\ StatsResponds(r)
                => /\ resp'[r].body.is_indexed = Has(indexes, key[r])
                   /\ ~before[r].changed
                          => resp'[r].body.is_indexed = before[r].resident]_vars

\* a stats call on a key whose index was resident before the call and all
\* through it has answered is_indexed = true, the entry still being there
C13_Witness ==
    \E r \in Reqs :
        /\ kind[r] = "stats" /\ pc[r] = "done" /\ resp[r].status = 200
        /\ before[r].resident /\ ~before[r].changed
        /\ resp[r].body.is_indexed
        /\ getRet[r] = "ok" /\ Has(indexes, key[r])

\* C14: invalidation is idempotent and always succeeds: from every state the
\* program reaches and for every key k, invalidate(k) run twice in succession
\* leaves the state of one run and both calls succeed; so every invalidate
\* call that runs to its end answers 200.
C14_InvalidateSucceeds ==
    [][\A r \in Reqs : InvalidateReturns(r) => resp'[r].status = 200]_vars

\* GET /labels with a well-formed bbox has answered 200
QueryAnswered(r) ==
    kind[r] = "labels" /\ pc[r] = "done" /\ resp[r].status = 200 /\ qbox[r] # <<>>

\* the ids of sequence q are in increasing position
Increasing(q) == \A i, j \in 1..Len(q) : i < j => q[i] < q[j]

\* C15: query_bbox on a resident entry returns the matching labels in insertion
\* order (increasing position in the entry's label sequence), whatever order
\* the spatial index yields the ids in; two queries with the same bbox on the
\* same entry return the same sequence.
C15_QueryInInsertionOrder ==
    /\ \A r \in Reqs : (QueryAnswered(r) /\ Solo(r)) => Increasing(resp[r].body)
    /\ \A r, q \in Reqs :
           (/\ QueryAnswered(r) /\ QueryAnswered(q) /\ NoCancel /\ OnlyGets
            /\ key[r] = key[q] /\ qbox[r] = qbox[q]
            /\ resp[r].body # <<>> /\ resp[q].body # <<>>)
               => resp[r].body = resp[q].body

\* get_or_build of r inserts the LabelIndex it has built
IndexInserts(r) == pc[r] = "ib_insert" /\ StepOf(r) /\ Has(indexes', key[r])

\* C16: once invalidate(k) has returned, no index entry built from bytes that
\* were cached for k before the invalidation becomes resident, also when the
\* invalidation interleaves with a /labels request for k that has the path
\* already and is building the index on a worker thread.
C16_NoStaleIndexAfterInvalidate ==
    [][\A r \in Reqs : (IndexInserts(r) /\ NoCancel) => r \notin stale]_vars

\* the requests whose _download of k is running on a worker thread
DownloadPcs == {"dl_mkdir", "dl_open", "dl_xfer", "dl_rename"}
Downloading(k) == {r \in Reqs : key[r] = k /\ pc[r] \in DownloadPcs}

\* C17: at no time are two downloads of the same key in progress, under any
\* interleaving of get, remove and request cancellations, the cancellation of
\* the lock holder while its download runs on a worker thread included.
C17_OneDownloadPerKey ==
    \A k \in Keys : Cardinality(Downloading(k)) <= 1

\* r held the lock of its key and was cancelled while its _download ran; the
\* worker thread is still in _download
CancelledDownload(r) == cancelled[r] /\ pc[r] \in DownloadPcs

\* C18: when the request holding the per-key lock for k is cancelled during its
\* download, afterwards the lock is released, k is not registered, no file
\* cache_dir/k is produced by the cancelled download, and cache_dir/k.tmp is
\* removed.
C18_CancelledDownloadLeavesNothing ==
    [][\A r \in Reqs :
         (CancelledDownload(r) /\ Solo(r))
             => /\ locks[key[r]] # r /\ locks'[key[r]] # r
                /\ ~Has(files', key[r])
                /\ StepOf(r) => disk'[key[r]] = disk[key[r]]
                /\ pc'[r] = "done" => ~Exists(tmp', key[r])]_vars

\* the eviction thread of r is inside the loop of _evict_if_needed
InEvictionPass(r) ==
    pc[r] \in {"ev_test", "ev_pick", "ev_next", "ev_remove", "ev_prune", "ev_del"}

\* get of r returns after its download succeeded
DownloadedGetReturns(r) ==
    GetReturns(r) /\ pc[r] \in {"dl_ok", "reg_bump", "ev_ok", "ev_err"}

\* C19: a disk eviction pass is atomic with respect to every other mutation of
\* the disk LRU (registration, MRU bump, another eviction pass): while a pass
\* is under way no other request changes the tracking dict; so no get whose
\* download succeeded fails because of a concurrent eviction.
C19_EvictionPassAtomic ==
    [][\A r \in Reqs :
         /\ (InEvictionPass(r) /\ ~StepOf(r) /\ NoCancel /\ OnlyGets')
                => files' = files
         /\ (DownloadedGetReturns(r) /\ NoCancel /\ OnlyGets')
                => getRet'[r] = "ok"]_vars

\* get_or_build or query_bbox of r has found its key resident and moves it to
\* the end
IndexHitStep(r) ==
    pc[r] \in {"ib_hit_bump", "q_bump"} /\ Has(indexes, key[r]) /\ StepOf(r)

\* the index eviction of r deletes the entry it picked
IndexEvicts(r) == pc[r] = "ib_del" /\ pc'[r] = "ib_test" /\ indexes' # indexes

\* C20: every hit of the index cache (get_or_build or query_bbox finds k
\* resident) moves k to the MRU position and adds or removes no entry; index
\* eviction removes the entry least recently touched: the evicted entry was
\* touched before every entry that remains.
C20_IndexEvictionIsLRU ==
    [][\A r \in Reqs :
         /\ (IndexHitStep(r) /\ NoCancel)
                => /\ indexes'[Len(indexes')].key = key[r]
                   /\ Len(indexes') = Len(indexes)
                   /\ KeysOf(indexes') = KeysOf(indexes)
         /\ (IndexEvicts(r) /\ NoCancel /\ OnlyGets)
                => \A s \in KeysOf(indexes') :
                       PosIn(touched, s) > PosIn(touched, oldest[r].key)]_vars
====
